---- MODULE Spec2Model ----
(***************************************************************************)
(* LightBnB data-access module (server/database.js): six operations, each  *)
(* of which builds one SQL statement, hands it with its positional         *)
(* parameters to pool.query and returns the promise of the reshaped row    *)
(* set. The module has no state of its own; the state is the relational    *)
(* store behind the pool plus the calls under way: a call is made (its     *)
(* statement is issued and its promise is pending), the store runs the     *)
(* statement in some later turn, and the .then callback settles the        *)
(* promise later still. Calls overlap, and the pool answers them in any    *)
(* order. A call whose argument record is missing throws before it        *)
(* reaches the pool.                                                       *)
(***************************************************************************)
EXTENDS Integers, Sequences, FiniteSets, TLC

VARIABLES users, properties, reservations, property_reviews,
          calls, resolvedAdds

vars == <<users, properties, reservations, property_reviews,
          calls, resolvedAdds>>

(* ------------------------------ bounds --------------------------------- *)
\* Rows the properties table grows to, and the largest limit passed.
MaxProperties == 3
MaxLimit == 2

(* ------------------------- JavaScript values --------------------------- *)
\* A JavaScript value is undefined, a number or a string; strings are
\* sequences of one-character strings. A number is NaN, an infinity
\* (inf = 1 or -1) or the double nearest to the decimal num/den (in lowest
\* terms, both below 2^31 and den at most 10^9); ulp # 0 marks the double
\* next above (1) or next below (-1) that one, which a product can yield.
Undefined == [kind |-> "undefined"]
Number(nan, inf, num, den, ulp) ==
  [kind |-> "number", nan |-> nan, inf |-> inf, num |-> num, den |-> den,
   ulp |-> ulp]
NaN == Number(TRUE, 0, 0, 1, 0)
Infinity(sign) == Number(FALSE, sign, 0, 1, 0)
Num(n) == Number(FALSE, 0, n, 1, 0)
Str(s) == [kind |-> "string", s |-> s]

RECURSIVE Gcd(_, _)
Gcd(a, b) == IF b = 0 THEN a ELSE Gcd(b, a % b)
Abs(n) == IF n < 0 THEN -n ELSE n

\* The number n/d (d > 0) in lowest terms.
Ratio(n, d) ==
  LET g == Gcd(Abs(n), d) IN Number(FALSE, 0, n \div g, d \div g, 0)

\* if (v) ... : undefined, 0, NaN and "" are falsy, everything else truthy.
Truthy(v) ==
  CASE v.kind = "undefined" -> FALSE
    [] v.kind = "number" -> (~v.nan) /\ (v.inf # 0 \/ v.num # 0)
    [] v.kind = "string" -> v.s # <<>>

Uppercase == <<"A", "B", "C", "D", "E", "F", "G", "H", "I", "J", "K", "L", "M",
               "N", "O", "P", "Q", "R", "S", "T", "U", "V", "W", "X", "Y", "Z">>
Lowercase == <<"a", "b", "c", "d", "e", "f", "g", "h", "i", "j", "k", "l", "m",
               "n", "o", "p", "q", "r", "s", "t", "u", "v", "w", "x", "y", "z">>
Lower(c) ==
  IF \E i \in 1..26 : Uppercase[i] = c
  THEN Lowercase[CHOOSE i \in 1..26 : Uppercase[i] = c] ELSE c

Digits == <<"0", "1", "2", "3", "4", "5", "6", "7", "8", "9",
            "a", "b", "c", "d", "e", "f">>
IsDigit(c, base) == \E d \in 1..base : Digits[d] = Lower(c)
DigitValue(c) == (CHOOSE d \in 1..16 : Digits[d] = Lower(c)) - 1
AllDigits(s, base) == \A i \in 1..Len(s) : IsDigit(s[i], base)

RECURSIVE ValueInBase(_, _)
ValueInBase(s, base) ==
  IF s = <<>> THEN 0
  ELSE base * ValueInBase(SubSeq(s, 1, Len(s) - 1), base)
       + DigitValue(s[Len(s)])

RECURSIVE Pow10(_)
Pow10(n) == IF n = 0 THEN 1 ELSE 10 * Pow10(n - 1)

\* StrWhiteSpaceChar: tab, vertical tab, form feed, space, no-break space,
\* U+FEFF, the line terminators LF, CR, U+2028, U+2029 and the other space
\* separators U+1680, U+2000..U+200A, U+202F, U+205F, U+3000. A character
\* that a string of this language cannot hold is written by its escape.
WhiteSpace ==
  {"\t", "", "\f", " ", " ", "﻿", "\n", "\r", " ",
   "\\u2000", "\\u2001", "\\u2002", "\\u2003", "\\u2004", "\\u2005",
   "\\u2006", "\\u2007", "\\u2008", "\\u2009", "\\u200a", "\\u2028",
   "\\u2029", "\\u202f", "\\u205f", "\\u3000"}
RECURSIVE Trim(_)
Trim(s) ==
  IF s = <<>> THEN s
  ELSE IF Head(s) \in WhiteSpace THEN Trim(Tail(s))
  ELSE IF s[Len(s)] \in WhiteSpace THEN Trim(SubSeq(s, 1, Len(s) - 1))
  ELSE s

\* The first place of s that holds a character of C, 0 when there is none.
IndexOf(s, C) ==
  IF \E i \in 1..Len(s) : s[i] \in C
  THEN CHOOSE i \in 1..Len(s) : s[i] \in C /\ \A j \in 1..(i - 1) : s[j] \notin C
  ELSE 0

From(s, i) == SubSeq(s, i, Len(s))
Upto(s, i) == SubSeq(s, 1, i)

\* digits [. digits] [e [+-] digits], with a digit before or after the point.
UnsignedDecimal(s) ==
  LET e == IndexOf(s, {"e", "E"})
      mant == IF e = 0 THEN s ELSE Upto(s, e - 1)
      expo == IF e = 0 THEN <<>> ELSE From(s, e + 1)
      esign == expo # <<>> /\ Head(expo) \in {"+", "-"}
      edigits == IF esign THEN Tail(expo) ELSE expo
      dot == IndexOf(mant, {"."})
      ip == IF dot = 0 THEN mant ELSE Upto(mant, dot - 1)
      fp == IF dot = 0 THEN <<>> ELSE From(mant, dot + 1)
      ev == (IF esign /\ Head(expo) = "-" THEN -1 ELSE 1)
              * ValueInBase(edigits, 10)
      scale == ev - Len(fp)
      m == ValueInBase(ip \o fp, 10)
  IN IF /\ AllDigits(ip, 10) /\ AllDigits(fp, 10) /\ Len(ip) + Len(fp) > 0
        /\ (e # 0 => edigits # <<>>) /\ AllDigits(edigits, 10)
     THEN IF scale >= 0 THEN Num(m * Pow10(scale)) ELSE Ratio(m, Pow10(-scale))
     ELSE NaN

Negated(x) ==
  IF x.nan THEN x ELSE Number(FALSE, -x.inf, -x.num, x.den, -x.ulp)

\* Number(s) of a string: white space around is dropped; what is left is
\* nothing (0), 0x/0o/0b digits, or an optionally signed Infinity or decimal
\* literal; anything else is NaN.
StringToNumber(s) ==
  LET t == Trim(s)
      radix == IF Len(t) > 2 /\ t[1] = "0"
               THEN CASE Lower(t[2]) = "x" -> 16
                      [] Lower(t[2]) = "o" -> 8
                      [] Lower(t[2]) = "b" -> 2
                      [] OTHER -> 0
               ELSE 0
      signed == t # <<>> /\ Head(t) \in {"+", "-"}
      body == IF signed THEN Tail(t) ELSE t
      magnitude == IF body = <<"I", "n", "f", "i", "n", "i", "t", "y">>
                   THEN Infinity(1) ELSE UnsignedDecimal(body)
  IN IF t = <<>> THEN Num(0)
     ELSE IF radix # 0
       THEN IF AllDigits(From(t, 3), radix)
            THEN Num(ValueInBase(From(t, 3), radix)) ELSE NaN
     ELSE IF signed /\ Head(t) = "-" THEN Negated(magnitude)
     ELSE magnitude

\* Number(v): a number is itself, undefined is NaN, a string is parsed.
ToNumber(v) ==
  CASE v.kind = "number" -> v
    [] v.kind = "undefined" -> NaN
    [] v.kind = "string" -> StringToNumber(v.s)

(* ------------------------ double arithmetic ---------------------------- *)
\* A positive double is [bits, e]: bits is its significand, first bit 1, at
\* most 53 bits, and e the exponent of that first bit; its value is the sum
\* of bits[i] * 2^(e + 1 - i).
RECURSIVE IntBits(_)
IntBits(n) == IF n = 0 THEN <<>> ELSE Append(IntBits(n \div 2), n % 2)

\* The whole number that bits writes (fewer than 31 bits), and the n-bit
\* writing of v.
RECURSIVE BitsValue(_)
BitsValue(bits) ==
  IF Len(bits) = 0 THEN 0
  ELSE IF Len(bits) = 1 THEN bits[1]
  ELSE BitsValue(SubSeq(bits, 1, Len(bits) \div 2))
         * 2^(Len(bits) - Len(bits) \div 2)
       + BitsValue(SubSeq(bits, Len(bits) \div 2 + 1, Len(bits)))
FixedBits(v, n) == [i \in 1..n |-> (v \div 2^(n - i)) % 2]

\* bits * c + carry (c and carry below 2^14): the product's last Len(bits)
\* bits and what is carried beyond them, sixteen bits at a time from the
\* last.
RECURSIVE TimesCarry(_, _, _)
Before(bits, c, low) ==
  [TimesCarry(SubSeq(bits, 1, Len(bits) - 16), c, low.carry)
     EXCEPT !.bits = @ \o low.bits]
TimesCarry(bits, c, carry) ==
  IF Len(bits) <= 16
  THEN [bits |-> FixedBits((BitsValue(bits) * c + carry) % 2^Len(bits),
                           Len(bits)),
        carry |-> (BitsValue(bits) * c + carry) \div 2^Len(bits)]
  ELSE Before(bits, c,
         TimesCarry(SubSeq(bits, Len(bits) - 15, Len(bits)), c, carry))

WithCarry(product) == IntBits(product.carry) \o product.bits
TimesSmall(bits, c) == WithCarry(TimesCarry(bits, c, 0))
PlusOne(bits) == WithCarry(TimesCarry(bits, 1, 1))

Kept(rounded, e) ==
  [bits |-> SubSeq(rounded, 1, 53), e |-> e + Len(rounded) - 53]

\* Round to nearest, ties to even: the first 53 bits, plus one when the 54th
\* is set and either the 53rd or anything after the 54th is; more says that
\* the value goes on beyond bits.
Round53(bits, e, more) ==
  IF Len(bits) <= 53 THEN [bits |-> bits, e |-> e]
  ELSE IF /\ bits[54] = 1
          /\ (more \/ bits[53] = 1 \/ \E i \in 55..Len(bits) : bits[i] = 1)
       THEN Kept(PlusOne(SubSeq(bits, 1, 53)), e)
       ELSE Kept(SubSeq(bits, 1, 53), e)

\* The first n bits of the binary expansion of r/d (r < d), zeros at the end
\* left out, and the remainder after them: one half, then the other from the
\* remainder of the first.
RECURSIVE FracBits(_, _, _)
SecondHalf(first, d, n) ==
  [FracBits(first.r, d, n) EXCEPT !.bits = first.bits \o @]
FracBits(r, d, n) ==
  IF r = 0 \/ n <= 0 THEN [bits |-> <<>>, r |-> r]
  ELSE IF n = 1 THEN [bits |-> <<(2 * r) \div d>>, r |-> (2 * r) % d]
  ELSE SecondHalf(FracBits(r, d, n \div 2), d, n - n \div 2)

\* The first 1 of the binary expansion of r/d (0 < r < d): its exponent and
\* what is left of r after it.
RECURSIVE LeadingBit(_, _, _)
LeadingBit(r, d, e) ==
  IF 2 * r >= d THEN [e |-> e, r |-> 2 * r - d] ELSE LeadingBit(2 * r, d, e - 1)

\* 54 bits of n/d from its first 1 on, rounded to 53.
Rounded(first, fraction, e) ==
  Round53(first \o fraction.bits, e, fraction.r # 0)
FromWhole(whole, r, d) ==
  Rounded(whole, FracBits(r, d, 54 - Len(whole)), Len(whole) - 1)
FromLeading(l, d) == Rounded(<<1>>, FracBits(l.r, d, 53), l.e)

\* The double nearest to n/d (n, d > 0): what reading a decimal literal gives.
Nearest(n, d) ==
  IF n >= d THEN FromWhole(IntBits(n \div d), n % d, d)
  ELSE FromLeading(LeadingBit(n, d, -1), d)

\* The double product of the double a and the whole number c.
Product(p, a) == Round53(p, a.e + Len(p) - Len(a.bits), FALSE)
TimesDouble(a, c) == Product(TimesSmall(a.bits, c), a)

\* The i-th bit of a significand, from its first bit.
BitFrom(bits, i) == IF i <= Len(bits) THEN bits[i] ELSE 0
Differ(a, b) == {i \in 1..53 : BitFrom(a.bits, i) # BitFrom(b.bits, i)}
FirstOf(S) == CHOOSE i \in S : \A j \in S : i <= j

\* 1, 0 or -1 as the double a is above, equal to or below the double b.
CompareDoubles(a, b) ==
  IF a.e # b.e THEN (IF a.e > b.e THEN 1 ELSE -1)
  ELSE IF Differ(a, b) = {} THEN 0
  ELSE IF BitFrom(a.bits, FirstOf(Differ(a, b))) = 1 THEN 1 ELSE -1

\* Mutant: the bound is bound as given, in major units.
Times100_Forgotten(x) == x

\* The double 100 * x against the double nearest to the decimal product p:
\* that double, or the one next above or next below it.
WithUlp(p, x) ==
  [p EXCEPT !.ulp = (IF x.num < 0 THEN -1 ELSE 1)
                      * CompareDoubles(TimesDouble(Nearest(Abs(x.num), x.den), 100),
                                       Nearest(Abs(p.num), p.den))]

\* 100 * x on JavaScript numbers: NaN, the infinities and 0 stay; x, the
\* double nearest to a decimal, gives the double nearest to 100 times that
\* double.
HundredTimes(num, den, g) == Ratio((100 \div g) * num, den \div g)
Times100(x) ==
  IF x.nan \/ x.inf # 0 \/ x.num = 0 THEN x
  ELSE WithUlp(HundredTimes(x.num, x.den, Gcd(100, x.den)), x)

\* `%${s}%`
Wildcarded(v) == Str(<<"%">> \o v.s \o <<"%">>)

\* An integer column value x against a bound number p.
Below(x, p) ==
  IF p.inf # 0 THEN p.inf = 1
  ELSE x * p.den < p.num \/ (x * p.den = p.num /\ p.ulp > 0)
Above(x, p) ==
  IF p.inf # 0 THEN p.inf = -1
  ELSE x * p.den > p.num \/ (x * p.den = p.num /\ p.ulp < 0)
Equal(x, p) == ~Below(x, p) /\ ~Above(x, p)
IsInteger(p) == (~p.nan) /\ p.inf = 0 /\ p.den = 1 /\ p.ulp = 0

(* ------------------------------ the store ------------------------------ *)
\* res.rows[0]
FirstRow(rows) == IF rows = <<>> THEN Undefined ELSE rows[1]

SeqToSet(s) == {s[i] : i \in 1..Len(s)}

\* All orderings of the rows of S that are non-decreasing in the column: what
\* ORDER BY column may deliver (rows with equal values come in any order).
Orderings(S, column) ==
  {q \in [1..Cardinality(S) -> S] :
     /\ \A i, j \in 1..Cardinality(S) : i # j => q[i] # q[j]
     /\ \A i, j \in 1..Cardinality(S) : i < j => q[i][column] <= q[j][column]}

\* LIMIT n applied to an ordered row sequence.
Limit(q, n) == SubSeq(q, 1, IF n < Len(q) THEN n ELSE Len(q))

RECURSIVE SumRatings(_)
SumRatings(V) ==
  IF V = {} THEN 0
  ELSE LET v == CHOOSE x \in V : TRUE IN v.rating + SumRatings(V \ {v})

\* avg(rating) over a set of review rows, kept as the exact fraction sum/n;
\* n = 0 is the SQL NULL that avg gives when no row carries a rating.
Avg(V) == [sum |-> SumRatings(V), n |-> Cardinality(V)]

\* text ILIKE pattern: % matches any run of characters, _ any one character,
\* a backslash takes the next pattern character literally, every other
\* character matches itself without regard to case.
RECURSIVE ILike(_, _)
ILike(text, pat) ==
  IF pat = <<>> THEN text = <<>>
  ELSE IF Head(pat) = "%"
    THEN ILike(text, Tail(pat)) \/ (text # <<>> /\ ILike(Tail(text), pat))
  ELSE IF Head(pat) = "_"
    THEN text # <<>> /\ ILike(Tail(text), Tail(pat))
  ELSE IF Head(pat) = "\\" /\ Len(pat) > 1
    THEN /\ text # <<>>
         /\ Lower(Head(text)) = Lower(pat[2])
         /\ ILike(Tail(text), Tail(Tail(pat)))
  ELSE /\ text # <<>>
       /\ Lower(Head(text)) = Lower(Head(pat))
       /\ ILike(Tail(text), Tail(pat))

(* ----------------------------- statements ------------------------------ *)
\* What pool.query answers: rows on success, the driver's error on failure,
\* and the two tables the module's statements can change.
Rows(rows, us, ps) ==
  [ok |-> TRUE, rows |-> rows, error |-> "", users |-> us, properties |-> ps]
Failure(e) ==
  [ok |-> FALSE, rows |-> <<>>, error |-> e, users |-> users,
   properties |-> properties]

\* Mutant: the WHERE clause is lost and every user row comes back.
SelectUserByEmail_NoWhere(params) == {Rows(users, users, properties)}

\* SELECT * FROM users WHERE email = $1
SelectUserByEmail(params) ==
  {Rows(SelectSeq(users, LAMBDA u : u.email = params[1]), users, properties)}

\* SELECT * FROM users WHERE id = $1
SelectUserById(params) ==
  {Rows(SelectSeq(users, LAMBDA u : u.id = params[1]), users, properties)}

\* users.email is unique: a second row with the same email is refused.
UsersEmailUnique(email) == \A i \in 1..Len(users) : users[i].email # email

\* INSERT INTO users (name, email, password) VALUES ($1, $2, $3);
\* The statement has no RETURNING clause, so its row set is empty.
InsertUser(params) ==
  IF UsersEmailUnique(params[2])
  THEN {Rows(<<>>,
             Append(users, [id |-> Len(users) + 1, name |-> params[1],
                            email |-> params[2], password |-> params[3]]),
             properties)}
  ELSE {Failure("constraint")}

\* Mutant: the join without the guest predicate.
ReservationJoin_AnyGuest(guest) ==
  {j \in SeqToSet(reservations) \X SeqToSet(properties)
           \X SeqToSet(property_reviews) :
     /\ j[1].property_id = j[2].id
     /\ j[2].id = j[3].property_id}

\* reservations JOIN properties JOIN property_reviews WHERE guest_id = $1:
\* one joined row per reservation of the guest, its property and one review
\* of that property.
ReservationJoin(guest) ==
  {j \in SeqToSet(reservations) \X SeqToSet(properties)
           \X SeqToSet(property_reviews) :
     /\ j[1].property_id = j[2].id
     /\ j[2].id = j[3].property_id
     /\ j[1].guest_id = guest}

\* GROUP BY properties.id, reservations.id with avg(rating); the row object
\* takes properties.* first and reservations.* second, so the reservation's
\* columns win where both tables have the name (id).
ReservationGroups(guest) ==
  LET J == ReservationJoin(guest) IN
  {[average_rating |->
      Avg({v \in SeqToSet(property_reviews) : <<g[1], g[2], v>> \in J})]
     @@ g[1] @@ g[2] : g \in {<<j[1], j[2]>> : j \in J}}

\* ... ORDER BY reservations.start_date LIMIT $2
\* LIMIT takes a whole number that is not negative.
SelectReservations(params) ==
  IF ~IsInteger(params[2]) \/ params[2].num < 0
  THEN {Failure("malformed")}
  ELSE {Rows(Limit(q, params[2].num), users, properties) :
          q \in Orderings(ReservationGroups(params[1]), "start_date")}

\* properties LEFT JOIN property_reviews ON properties.id = property_id:
\* one row per review of a property, and one row with a NULL review for a
\* property that has none.
NoReview == [id |-> 0, property_id |-> 0, rating |-> 0, null |-> TRUE]
Review(v) == [id |-> v.id, property_id |-> v.property_id,
              rating |-> v.rating, null |-> FALSE]
ReviewsOf(p) == {v \in SeqToSet(property_reviews) : v.property_id = p.id}
PropertyJoin ==
  {j \in SeqToSet(properties) \X ({NoReview} \cup
                                  {Review(v) : v \in SeqToSet(property_reviews)}) :
     IF ReviewsOf(j[1]) = {} THEN j[2] = NoReview
     ELSE (~j[2].null) /\ j[2].property_id = j[1].id}

\* One predicate of the WHERE chain, as text "AND <column> <op> $<ph> ",
\* decided on a joined row with the bound parameters. A comparison with a
\* NULL rating is not true.
Holds(pred, j, params) ==
  CASE pred.op = "ILIKE" -> ILike(j[1].city, params[pred.ph].s)
    [] pred.column = "owner_id" -> Equal(j[1].owner_id, params[pred.ph])
    [] pred.column = "cost_per_night" /\ pred.op = ">=" ->
         ~Below(j[1].cost_per_night, params[pred.ph])
    [] pred.column = "cost_per_night" /\ pred.op = "<=" ->
         ~Above(j[1].cost_per_night, params[pred.ph])
    [] pred.column = "property_reviews.rating" ->
         (~j[2].null) /\ ~Below(j[2].rating, params[pred.ph])

\* The store refuses the statement when its placeholders are not exactly
\* $1..$n for the n parameters bound, when the parameter of ILIKE is not
\* text, when the parameter compared with owner_id, cost_per_night or rating
\* (integer columns, so the parameter is read as an integer) is not a whole
\* number (NaN, an infinity and a fraction such as 150.5 or
\* 16080.000000000002 are none), or when LIMIT is not a whole number or is
\* negative.
Placeholders(stmt) ==
  {stmt.where[i].ph : i \in 1..Len(stmt.where)} \cup {stmt.limit}
Refused(stmt, params) ==
  \/ Placeholders(stmt) # 1..Len(params)
  \/ \E i \in 1..Len(stmt.where) :
       LET v == params[stmt.where[i].ph] IN
       IF stmt.where[i].op = "ILIKE" THEN v.kind # "string"
       ELSE v.kind # "number" \/ ~IsInteger(v)
  \/ LET l == params[stmt.limit] IN
       l.kind # "number" \/ ~IsInteger(l) \/ l.num < 0

\* WHERE 1=1 AND ... GROUP BY properties.id: the properties with a joined row
\* that passes every predicate, each with the average of the ratings of its
\* passing rows.
PropertyGroups(stmt, params) ==
  LET Pass == {j \in PropertyJoin :
                 \A i \in 1..Len(stmt.where) : Holds(stmt.where[i], j, params)}
  IN {[average_rating |->
         Avg({j[2] : j \in {k \in Pass : k[1] = p /\ ~k[2].null}})] @@ p :
        p \in {j[1] : j \in Pass}}

\* SELECT properties.*, avg(property_reviews.rating) as average_rating ...
\* ORDER BY cost_per_night LIMIT $n
SearchProperties(stmt, params) ==
  IF Refused(stmt, params)
  THEN {Failure("malformed")}
  ELSE {Rows(Limit(q, params[stmt.limit].num), users, properties) :
          q \in Orderings(PropertyGroups(stmt, params), "cost_per_night")}

\* properties.owner_id is required: a missing value is refused.
PropertyColumnsPresent(params) == params[1] # Undefined

\* INSERT INTO properties (owner_id, ..., number_of_bedrooms, active)
\* VALUES ($1, ..., $14, true) RETURNING *;
InsertedProperty(params) ==
  [id |-> Len(properties) + 1,
   owner_id |-> params[1].num, title |-> params[2],
   description |-> params[3], thumbnail_photo_url |-> params[4],
   cover_photo_url |-> params[5], cost_per_night |-> params[6].num,
   street |-> params[7], city |-> params[8].s, province |-> params[9],
   post_code |-> params[10], country |-> params[11],
   parking_spaces |-> params[12], number_of_bathrooms |-> params[13],
   number_of_bedrooms |-> params[14], active |-> TRUE]

\* Mutant: the insert without its RETURNING clause.
InsertProperty_NoReturning(params) ==
  IF PropertyColumnsPresent(params)
  THEN {Rows(<<>>, users, Append(properties, InsertedProperty(params)))}
  ELSE {Failure("constraint")}

InsertProperty(params) ==
  IF PropertyColumnsPresent(params)
  THEN {Rows(<<InsertedProperty(params)>>, users,
             Append(properties, InsertedProperty(params)))}
  ELSE {Failure("constraint")}

\* pool.query(text, params): the connection may fail before the statement
\* runs; otherwise the store runs the statement.
PoolQuery(stmt, params) ==
  {Failure("connection")} \cup
  CASE stmt.sql = "SELECT_USER_BY_EMAIL" -> SelectUserByEmail(params)
    [] stmt.sql = "SELECT_USER_BY_ID" -> SelectUserById(params)
    [] stmt.sql = "INSERT_USER" -> InsertUser(params)
    [] stmt.sql = "SELECT_RESERVATIONS" -> SelectReservations(params)
    [] stmt.sql = "SEARCH_PROPERTIES" -> SearchProperties(stmt, params)
    [] stmt.sql = "INSERT_PROPERTY" -> InsertProperty(params)

\* Mutant: a failed query is swallowed and the call resolves to nothing.
Then_Recovering(answer, value) ==
  IF answer.ok THEN [status |-> "resolved", value |-> value, error |-> ""]
  ELSE [status |-> "resolved", value |-> Undefined, error |-> ""]

\* pool.query(...).then(f): resolved with f(res) when the query succeeds,
\* rejected with the query's error otherwise (f is not called, nothing
\* catches).
Then(answer, value) ==
  IF answer.ok THEN [status |-> "resolved", value |-> value, error |-> ""]
  ELSE [status |-> "rejected", value |-> Undefined, error |-> answer.error]


(* ------------------------------- calls --------------------------------- *)
\* The default of the limit parameter of getAllReservations and
\* getAllProperties.
DefaultLimit == 10
WithDefault(limit) == IF limit = Undefined THEN Num(DefaultLimit) ELSE limit

\* A call under way: what was called, the statements it has issued, the
\* pool's answer once the store has run the statement, and the promise
\* handed to the caller. `after` is the set of users whose addUser had
\* resolved when the call was made.
NoAnswer == [ok |-> FALSE, rows |-> <<>>, error |-> ""]
PendingPromise == [status |-> "pending", value |-> Undefined, error |-> ""]
Idle ==
  [call |-> [op |-> "none"], issued |-> <<>>, phase |-> "idle",
   answer |-> NoAnswer, result |-> PendingPromise, after |-> {}]

\* What the caller gets instead of a promise when the call throws.
Thrown == [status |-> "thrown", value |-> Undefined, error |-> "TypeError"]

\* The calls the model follows at a time.
Places == {1, 2}

\* The place the next call is followed in: the first one that holds no call
\* or a call that is over (settled, or thrown).
Free(i) == calls[i].phase \in {"idle", "settled", "thrown"}
Slot == CHOOSE i \in Places : Free(i) /\ \A j \in 1..(i - 1) : ~Free(j)

\* return pool.query(text, params).then(...): the statement is handed to
\* the pool and the caller holds a pending promise; nothing else happens in
\* this turn.
Query(c, stmt, params) ==
  /\ calls' = [calls EXCEPT ![Slot] =
                 [call |-> c, issued |-> <<[stmt |-> stmt, params |-> params]>>,
                  phase |-> "pending", answer |-> NoAnswer,
                  result |-> PendingPromise, after |-> resolvedAdds]]
  /\ UNCHANGED <<users, properties, reservations, property_reviews,
                 resolvedAdds>>

\* user.name, options.city or property.owner_id of undefined: a TypeError is
\* thrown in the caller's turn, before pool.query is called. No statement is
\* issued and the caller holds no promise.
Throw(c) ==
  /\ calls' = [calls EXCEPT ![Slot] =
                 [call |-> c, issued |-> <<>>, phase |-> "thrown",
                  answer |-> NoAnswer, result |-> Thrown,
                  after |-> resolvedAdds]]
  /\ UNCHANGED <<users, properties, reservations, property_reviews,
                 resolvedAdds>>

\* The pool runs the statement of a pending call, of any one of them, and
\* has its answer.
StoreRuns(i) ==
  /\ calls[i].phase = "pending"
  /\ \E out \in PoolQuery(calls[i].issued[1].stmt, calls[i].issued[1].params) :
       /\ users' = out.users
       /\ properties' = out.properties
       /\ calls' = [calls EXCEPT
                      ![i].phase = "answered",
                      ![i].answer = [ok |-> out.ok, rows |-> out.rows,
                                     error |-> out.error]]
  /\ UNCHANGED <<reservations, property_reviews, resolvedAdds>>

\* res => res.rows[0] in getUserWithEmail, getUserWithId, addUser and
\* addProperty; res => res.rows in getAllReservations and getAllProperties.
OnFulfilled(op, rows) ==
  IF op \in {"getAllReservations", "getAllProperties"} THEN rows
  ELSE FirstRow(rows)

\* The .then of an answered call runs and settles the caller's promise.
Callback(i) ==
  /\ calls[i].phase = "answered"
  /\ calls' = [calls EXCEPT
                 ![i].phase = "settled",
                 ![i].result = Then(calls[i].answer,
                                    OnFulfilled(calls[i].call.op,
                                                calls[i].answer.rows))]
  /\ resolvedAdds' =
       IF calls[i].call.op = "addUser" /\ calls[i].answer.ok
       THEN resolvedAdds \cup {calls[i].call.user} ELSE resolvedAdds
  /\ UNCHANGED <<users, properties, reservations, property_reviews>>

(* ----------------------------- operations ------------------------------ *)
getUserWithEmail(email) ==
  Query([op |-> "getUserWithEmail", email |-> email],
        [sql |-> "SELECT_USER_BY_EMAIL"], <<email>>)

getUserWithId(id) ==
  Query([op |-> "getUserWithId", id |-> id],
        [sql |-> "SELECT_USER_BY_ID"], <<id>>)

addUser(user) ==
  IF user = Undefined THEN Throw([op |-> "addUser", user |-> user])
  ELSE Query([op |-> "addUser", user |-> user],
             [sql |-> "INSERT_USER"], <<user.name, user.email, user.password>>)

getAllReservations(guest_id, limit) ==
  Query([op |-> "getAllReservations", guest_id |-> guest_id, limit |-> limit],
        [sql |-> "SELECT_RESERVATIONS"], <<guest_id, WithDefault(limit)>>)

\* Mutant: the index is taken before the push.
Placeholder_BeforePush(queryParams) == Len(queryParams) - 1

\* `$${queryParams.length}`
Placeholder(queryParams) == Len(queryParams)

\* queryParams.push(value); queryString += `AND column op $n `;
AddPredicate(q, value, column, op) ==
  LET pushed == Append(q.params, value) IN
  [params |-> pushed,
   where |-> Append(q.where, [column |-> column, op |-> op,
                              ph |-> Placeholder(pushed)])]

\* Mutant: the option is tested for presence, not for truth.
Applied_IfPresent(v) == v # Undefined

\* if (options.x) { ... }
Applied(v) == Truthy(v)

\* if (options.x) { queryParams.push(value); queryString += `AND ... $n `; }
IfApplied(q, v, value, column, op) ==
  IF Applied(v) THEN AddPredicate(q, value, column, op) ELSE q

\* queryParams.push(limit); queryString += `... LIMIT $n`;
AddLimit(q, limit) ==
  LET pushed == Append(q.params, limit) IN
  [stmt |-> [sql |-> "SEARCH_PROPERTIES", where |-> q.where,
             limit |-> Placeholder(pushed)],
   params |-> pushed]

\* The statement and the parameter list getAllProperties builds.
BuildSearch(options, limit) ==
  LET q0 == [params |-> <<>>, where |-> <<>>]
      q1 == IfApplied(q0, options.city, Wildcarded(options.city),
                      "city", "ILIKE")
      q2 == IfApplied(q1, options.owner_id, ToNumber(options.owner_id),
                      "owner_id", "=")
      q3 == IfApplied(q2, options.minimum_price_per_night,
                      Times100(ToNumber(options.minimum_price_per_night)),
                      "cost_per_night", ">=")
      q4 == IfApplied(q3, options.maximum_price_per_night,
                      Times100(ToNumber(options.maximum_price_per_night)),
                      "cost_per_night", "<=")
      q5 == IfApplied(q4, options.minimum_rating,
                      ToNumber(options.minimum_rating),
                      "property_reviews.rating", ">=")
  IN AddLimit(q5, limit)

\* return pool.query(queryString, queryParams).then(res => res.rows);
QueryBuilt(c, built) == Query(c, built.stmt, built.params)

getAllProperties(options, limit) ==
  IF options = Undefined
  THEN Throw([op |-> "getAllProperties", options |-> options,
              limit |-> limit])
  ELSE QueryBuilt([op |-> "getAllProperties", options |-> options,
                   limit |-> limit],
                  BuildSearch(options, WithDefault(limit)))

addProperty(property) ==
  IF property = Undefined
  THEN Throw([op |-> "addProperty", property |-> property])
  ELSE Query([op |-> "addProperty", property |-> property],
             [sql |-> "INSERT_PROPERTY"],
             <<property.owner_id, property.title, property.description,
               property.thumbnail_photo_url, property.cover_photo_url,
               property.cost_per_night, property.street, property.city,
               property.province, property.post_code, property.country,
               property.parking_spaces, property.number_of_bathrooms,
               property.number_of_bedrooms>>)

(* ------------------------- tables and inputs --------------------------- *)
SeedUsers ==
  <<[id |-> 1, name |-> "S", email |-> "s@x.com", password |-> "p"],
    [id |-> 2, name |-> "T", email |-> "t@x.com", password |-> "p"]>>

PropertyRow(id, owner, city, cost) ==
  [id |-> id, owner_id |-> owner, title |-> "t", description |-> "d",
   thumbnail_photo_url |-> "u", cover_photo_url |-> "u",
   cost_per_night |-> cost, street |-> "s", city |-> city,
   province |-> "BC", post_code |-> "V", country |-> "CA",
   parking_spaces |-> 1, number_of_bathrooms |-> 1,
   number_of_bedrooms |-> 1, active |-> TRUE]

\* Two kinds of property: a cheap one in "Va" and a dear one in "b".
PropertyKinds == {<<1, <<"V", "a">>, 100>>, <<2, <<"b">>, 200>>}
PropertyIds == {1, 2}
PropertyTables ==
  {[i \in PropertyIds |-> PropertyRow(i, k[i][1], k[i][2], k[i][3])] :
     k \in [PropertyIds -> PropertyKinds]}

Ratings == {1, 4}
ReviewIds == {1, 2}
ReviewTables ==
  {[i \in ReviewIds |-> [id |-> i, property_id |-> k[i][1], rating |-> k[i][2]]] :
     k \in [ReviewIds -> PropertyIds \X Ratings]}

GuestIds == {1, 2}
StartDates == {1, 2}
ReservationIds == {1, 2, 3}
ReservationTables ==
  {[i \in ReservationIds |->
      [id |-> i, guest_id |-> k[i][1], property_id |-> k[i][2],
       start_date |-> k[i][3], end_date |-> k[i][3] + 1]] :
     k \in [ReservationIds -> GuestIds \X PropertyIds \X StartDates]}

\* limit: left out, negative, or 0..MaxLimit.
Limits == {Undefined, Num(-1)} \cup {Num(n) : n \in 0..MaxLimit}

NoOptions ==
  [city |-> Undefined, owner_id |-> Undefined,
   minimum_price_per_night |-> Undefined,
   maximum_price_per_night |-> Undefined, minimum_rating |-> Undefined]

\* Search options as a caller can pass them: left out, a number, or the
\* string an HTML form field delivers ("" for a field left empty).
CityValues == {Undefined, Str(<<>>), Str(<<"v">>), Str(<<"_">>)}
OwnerValues == {Undefined, Num(0), Str(<<" ", "1">>)}
MinimumPriceValues == {Undefined, Num(0), Num(1), Str(<<"1", ".", "5">>)}
MaximumPriceValues == {Undefined, Num(0), Num(1), Str(<<"2">>)}
RatingValues == {Undefined, Str(<<>>), Num(3)}
SearchOptions ==
  [city : CityValues, owner_id : OwnerValues,
   minimum_price_per_night : MinimumPriceValues,
   maximum_price_per_night : MaximumPriceValues,
   minimum_rating : RatingValues]

\* Price bounds for the searches by price alone: left out, 0 and "" (present
\* and falsy), whole and fractional amounts as numbers and as form strings.
\* 100 * "1.5" is 150 and 100 * "1e2" is 10000; 100 * "0.07" is
\* 7.000000000000001 and 100 * "1608e-1" is 16080.000000000002, which the
\* store refuses.
PriceValues ==
  {Undefined, Num(0), Str(<<>>), Num(1), Num(2), Str(<<"1", ".", "5">>),
   Str(<<"2">>), Str(<<"1", "e", "2">>), Str(<<"0", ".", "0", "7">>),
   Str(<<"1", "6", "0", "8", "e", "-", "1">>)}
PriceOptions ==
  {[NoOptions EXCEPT !.minimum_price_per_night = lo,
                     !.maximum_price_per_night = hi] :
     lo \in PriceValues, hi \in PriceValues}

\* Properties at and around the bounds, in cents.
Costs == {7, 100, 150, 200, 16080}
PricedTables ==
  {[i \in PropertyIds |-> PropertyRow(i, i, <<"b">>, k[i])] :
     k \in [PropertyIds -> Costs]}

\* Two new users who want the same email, and one who wants a seed user's.
UserInputs ==
  {[name |-> "A", email |-> "a@x.com", password |-> "p"],
   [name |-> "B", email |-> "a@x.com", password |-> "p"],
   [name |-> "A", email |-> "s@x.com", password |-> "p"]}
Emails == {"a@x.com", "s@x.com"}
UserIds == {1, 3}

PropertyInput(owner, city, cost) ==
  [owner_id |-> owner, title |-> "t", description |-> "d",
   thumbnail_photo_url |-> "u", cover_photo_url |-> "u",
   cost_per_night |-> cost, street |-> "s", city |-> city,
   province |-> "BC", post_code |-> "V", country |-> "CA",
   parking_spaces |-> 1, number_of_bathrooms |-> 1,
   number_of_bedrooms |-> 1]
PropertyInputs ==
  {PropertyInput(Num(1), Str(<<"V", "a">>), Num(100)),
   [active |-> FALSE] @@ PropertyInput(Num(2), Str(<<"b">>), Num(200)),
   PropertyInput(Undefined, Str(<<"b">>), Num(200))}

\* A few limits and searches for the specification of the whole module.
SomeLimits == {Undefined, Num(-1)}
SomeOptions ==
  {NoOptions,
   [NoOptions EXCEPT !.city = Str(<<"v">>)],
   [NoOptions EXCEPT !.owner_id = Str(<<"x">>)]}

(* --------------------------- specifications ---------------------------- *)
InitWith(ps, vs, rs) ==
  /\ users = SeedUsers
  /\ properties \in ps
  /\ property_reviews \in vs
  /\ reservations \in rs
  /\ calls = [i \in Places |-> Idle]
  /\ resolvedAdds = {}

\* The whole module over one store.
Init ==
  InitWith({p \in PropertyTables : p[1].owner_id = 1 /\ p[2].owner_id = 2},
           {v \in ReviewTables : /\ v[1].property_id = 1 /\ v[1].rating = 4
                                 /\ v[2].property_id = 1 /\ v[2].rating = 1},
           {r \in ReservationTables :
              /\ r[1].guest_id = 1 /\ r[1].start_date = 2 /\ r[1].property_id = 1
              /\ r[2].guest_id = 1 /\ r[2].start_date = 1 /\ r[2].property_id = 2
              /\ r[3].guest_id = 1 /\ r[3].start_date = 2 /\ r[3].property_id = 1})

\* The callers make a call whenever one of the places is free, and
\* add properties until the table has MaxProperties rows.
CanCall == \E i \in Places : Free(i)

Next ==
  \/ CanCall /\ \E email \in Emails : getUserWithEmail(email)
  \/ CanCall /\ \E id \in UserIds : getUserWithId(id)
  \/ CanCall /\ \E user \in UserInputs \cup {Undefined} : addUser(user)
  \/ CanCall /\ \E guest_id \in {1}, limit \in SomeLimits :
                  getAllReservations(guest_id, limit)
  \/ CanCall /\ \E options \in SomeOptions \cup {Undefined} :
                  getAllProperties(options, Undefined)
  \/ /\ CanCall
     /\ Len(properties) + Cardinality({i \in Places :
          calls[i].phase = "pending" /\ calls[i].call.op = "addProperty"})
          < MaxProperties
     /\ \E property \in PropertyInputs \cup {Undefined} :
          addProperty(property)
  \/ \E i \in Places : StoreRuns(i)
  \/ \E i \in Places : Callback(i)

Spec == Init /\ [][Next]_vars

\* getAllProperties as a function of the store and its arguments: one call
\* from every store and with every argument, run and settled.
NoCallYet == \A i \in Places : calls[i].phase = "idle"

InitSearch == InitWith(PropertyTables, ReviewTables, {<<>>})
NextSearch ==
  \/ NoCallYet /\ \E options \in SearchOptions, limit \in Limits :
                    getAllProperties(options, limit)
  \/ \E i \in Places : StoreRuns(i)
  \/ \E i \in Places : Callback(i)
SpecSearch == InitSearch /\ [][NextSearch]_vars

\* getAllProperties({minimum_price_per_night: lo, maximum_price_per_night:
\* hi}) as a function of the store and the pair of bounds: one call from
\* every store and with every pair, run and settled.
InitPrices == InitWith(PricedTables, ReviewTables, {<<>>})
NextPrices ==
  \/ NoCallYet /\ \E options \in PriceOptions :
                    getAllProperties(options, Undefined)
  \/ \E i \in Places : StoreRuns(i)
  \/ \E i \in Places : Callback(i)
SpecPrices == InitPrices /\ [][NextPrices]_vars

\* getAllReservations as a function of the store and its arguments: one
\* call from every store and with every argument, run and settled.
InitReservations ==
  InitWith({p \in PropertyTables : p[1].owner_id = 1 /\ p[2].owner_id = 2},
           ReviewTables, ReservationTables)
NextReservations ==
  \/ NoCallYet /\ \E guest_id \in GuestIds, limit \in Limits :
                    getAllReservations(guest_id, limit)
  \/ \E i \in Places : StoreRuns(i)
  \/ \E i \in Places : Callback(i)
SpecReservations == InitReservations /\ [][NextReservations]_vars

(* ------------------------------- claims -------------------------------- *)
Made(c, op) == c.call.op = op
IsSettled(c, op) == c.call.op = op /\ c.phase = "settled"
IsResolved(c, op) == c.call.op = op /\ c.result.status = "resolved"
RowsOf(c) == {c.result.value[i] : i \in 1..Len(c.result.value)}
IsFinite(x) == (~x.nan) /\ x.inf = 0

\* C1: addUser(u), when its insert succeeds, resolves to the inserted row: a
\* user record (not an absent value) with u's name and email.
C1_AddUserResolvesToInsertedRow ==
  \A i \in Places :
    IsResolved(calls[i], "addUser") =>
      /\ calls[i].result.value # Undefined
      /\ calls[i].result.value.name = calls[i].call.user.name
      /\ calls[i].result.value.email = calls[i].call.user.email

\* The average rating of a property over all of its reviews is at least r.
AverageAtLeast(id, r) ==
  LET V == {v \in SeqToSet(property_reviews) : v.property_id = id} IN
  V # {} /\ SumRatings(V) * r.den >= r.num * Cardinality(V)

\* C2: with minimum_rating = r, a property is returned only if its average
\* rating over all of its reviews is at least r.
C2_MinimumRatingBoundsAverage ==
  \A i \in Places :
    (/\ IsResolved(calls[i], "getAllProperties")
     /\ Truthy(calls[i].call.options.minimum_rating)
     /\ IsFinite(ToNumber(calls[i].call.options.minimum_rating))) =>
      \A row \in RowsOf(calls[i]) :
        AverageAtLeast(row.id, ToNumber(calls[i].call.options.minimum_rating))

\* The five recognised options: name, column and operator of the predicate.
OptionNames == <<"city", "owner_id", "minimum_price_per_night",
                 "maximum_price_per_night", "minimum_rating">>
OptionColumn == <<"city", "owner_id", "cost_per_night", "cost_per_night",
                  "property_reviews.rating">>
OptionOp == <<"ILIKE", "=", ">=", "<=", ">=">>
Option(c, k) == c.call.options[OptionNames[k]]
HasPredicate(c, k) ==
  \E i \in 1..Len(c.issued[1].stmt.where) :
    /\ c.issued[1].stmt.where[i].column = OptionColumn[k]
    /\ c.issued[1].stmt.where[i].op = OptionOp[k]

\* s occurs in text, letters compared without regard to case.
ContainsCI(text, s) ==
  \E i \in 0..(Len(text) - Len(s)) :
    \A j \in 1..Len(s) : Lower(text[i + j]) = Lower(s[j])

\* cost >= 100 * x and cost <= 100 * x for a whole cost and a number x.
AtLeast100Times(cost, x) ==
  (~x.nan) /\ (x.inf = -1 \/ (x.inf = 0 /\ cost * x.den >= 100 * x.num))
AtMost100Times(cost, x) ==
  (~x.nan) /\ (x.inf = 1 \/ (x.inf = 0 /\ cost * x.den <= 100 * x.num))

\* The predicate of option k with value v, as the spec words it, on a
\* returned property; for minimum_rating it is the predicate as the statement
\* applies it, on the review rows of the property.
Satisfies(row, k, v) ==
  LET x == ToNumber(v) IN
  CASE k = 1 -> ILike(row.city, <<"%">> \o v.s \o <<"%">>)
    [] k = 2 -> IsFinite(x) /\ row.owner_id * x.den = x.num
    [] k = 3 -> AtLeast100Times(row.cost_per_night, x)
    [] k = 4 -> AtMost100Times(row.cost_per_night, x)
    [] k = 5 -> \E rv \in SeqToSet(property_reviews) :
                  /\ rv.property_id = row.id
                  /\ (~x.nan) /\ (x.inf = -1 \/
                       (x.inf = 0 /\ rv.rating * x.den >= x.num))

\* C3 as claimed: every option present in the record, whatever its value
\* (0 and "" included), contributes its predicate to the statement.
C3_PresentOptionsContribute ==
  \A i \in Places :
    Made(calls[i], "getAllProperties") =>
      \A k \in 1..5 :
        Option(calls[i], k) # Undefined <=> HasPredicate(calls[i], k)

\* C3 as amended: an option contributes its predicate exactly when its value
\* is truthy (0 and "" contribute none, like an absent option), and every
\* returned property satisfies the predicates of all options with a truthy
\* value.
C3_TruthyOptionsContribute ==
  \A i \in Places :
    Made(calls[i], "getAllProperties") =>
      /\ \A k \in 1..5 :
           Truthy(Option(calls[i], k)) <=> HasPredicate(calls[i], k)
      /\ calls[i].result.status = "resolved" =>
           \A row \in RowsOf(calls[i]) : \A k \in 1..5 :
             Truthy(Option(calls[i], k)) =>
               Satisfies(row, k, Option(calls[i], k))

\* A search with a truthy option, a present option whose value is "" and one
\* whose value is 0, that returned a property.
C3_Witness ==
  \E i \in Places :
    /\ IsResolved(calls[i], "getAllProperties")
    /\ calls[i].call.options.city = Str(<<"v">>)
    /\ calls[i].call.options.minimum_rating = Str(<<>>)
    /\ calls[i].call.options.maximum_price_per_night = Num(0)
    /\ Len(calls[i].result.value) > 0

IsNumeric(v) == v # Undefined /\ ~ToNumber(v).nan
InPriceRange(c) ==
  \A row \in RowsOf(c) :
    /\ AtLeast100Times(row.cost_per_night,
                       ToNumber(c.call.options.minimum_price_per_night))
    /\ AtMost100Times(row.cost_per_night,
                      ToNumber(c.call.options.maximum_price_per_night))

\* C4 as claimed: for every pair of bounds lo, hi, only properties with
\* 100*lo <= cost_per_night <= 100*hi are returned.
C4_PriceBoundsAnyValue ==
  \A i \in Places :
    (/\ IsResolved(calls[i], "getAllProperties")
     /\ IsNumeric(calls[i].call.options.minimum_price_per_night)
     /\ IsNumeric(calls[i].call.options.maximum_price_per_night)) =>
      InPriceRange(calls[i])

\* C4 as amended: for every pair of bounds lo, hi that are truthy (neither 0
\* nor ""), only properties with 100*lo <= cost_per_night <= 100*hi are
\* returned.
C4_PriceBoundsNonZero ==
  \A i \in Places :
    (/\ IsResolved(calls[i], "getAllProperties")
     /\ Truthy(calls[i].call.options.minimum_price_per_night)
     /\ Truthy(calls[i].call.options.maximum_price_per_night)) =>
      InPriceRange(calls[i])

\* A search between "1.5" and "2" over a property costing 150 or 200 and
\* one costing 100 or 16080: the first, at an end of the range, is returned
\* and the second, outside the range, is not.
C4_Witness ==
  \E i \in Places :
    /\ IsResolved(calls[i], "getAllProperties")
    /\ calls[i].call.options.minimum_price_per_night = Str(<<"1", ".", "5">>)
    /\ calls[i].call.options.maximum_price_per_night = Str(<<"2">>)
    /\ \E row \in RowsOf(calls[i]) : row.cost_per_night \in {150, 200}
    /\ \E p \in SeqToSet(properties) :
         /\ p.cost_per_night \in {100, 16080}
         /\ \A row \in RowsOf(calls[i]) : row.id # p.id

\* C5: getAllReservations(guest_id, n) returns at most n records, all of them
\* reservations of that guest, in non-decreasing order of start_date, none of
\* them for a property without reviews.
C5_ReservationListing ==
  \A i \in Places :
    IsResolved(calls[i], "getAllReservations") =>
      LET rows == calls[i].result.value IN
      /\ Len(rows) <= WithDefault(calls[i].call.limit).num
      /\ \A k \in 1..Len(rows) :
           /\ rows[k].guest_id = calls[i].call.guest_id
           /\ \E r \in SeqToSet(reservations) :
                /\ r.id = rows[k].id
                /\ r.guest_id = calls[i].call.guest_id
                /\ r.start_date = rows[k].start_date
           /\ \E v \in SeqToSet(property_reviews) :
                v.property_id = rows[k].property_id
      /\ \A k, l \in 1..Len(rows) :
           k < l => rows[k].start_date <= rows[l].start_date

\* The guest has a reservation for a property without reviews and two, on
\* different dates, for reviewed properties; the limit of 1 cut the list to
\* the earlier of the two.
C5_Witness ==
  \E i \in Places :
    /\ IsResolved(calls[i], "getAllReservations")
    /\ calls[i].call.limit = Num(1)
    /\ Len(calls[i].result.value) = 1
    /\ \E r \in SeqToSet(reservations) :
         /\ r.guest_id = calls[i].call.guest_id
         /\ \A v \in SeqToSet(property_reviews) : v.property_id # r.property_id
    /\ \E r \in SeqToSet(reservations) :
         /\ r.guest_id = calls[i].call.guest_id
         /\ r.start_date > calls[i].result.value[1].start_date
         /\ \E v \in SeqToSet(property_reviews) : v.property_id = r.property_id

\* C6: a getUserWithEmail(u.email) made after addUser(u) has resolved
\* resolves to a record with u's name and email, whatever other calls are
\* under way or were made in between.
C6_AddedUserIsFoundByEmail ==
  \A i \in Places :
    IsResolved(calls[i], "getUserWithEmail") =>
      \A u \in calls[i].after :
        u.email = calls[i].call.email =>
          /\ calls[i].result.value # Undefined
          /\ calls[i].result.value.name = u.name
          /\ calls[i].result.value.email = u.email

\* A lookup of a user added earlier has resolved, while a second addUser for
\* the same email, under way at the time of the lookup, was rejected.
C6_Witness ==
  \E i, j \in Places :
    /\ IsResolved(calls[i], "getUserWithEmail")
    /\ \E u \in calls[i].after : u.email = calls[i].call.email
    /\ calls[i].result.value # Undefined
    /\ IsSettled(calls[j], "addUser")
    /\ calls[j].call.user.email = calls[i].call.email
    /\ calls[j].result.status = "rejected"

\* C7: getAllProperties({city: s}, n) returns at most n properties, each with
\* a city that contains s, letters compared without regard to case.
C7_CityContainsSubstring ==
  \A i \in Places :
    (/\ IsResolved(calls[i], "getAllProperties")
     /\ calls[i].call.options.city # Undefined) =>
      /\ Len(calls[i].result.value) <= WithDefault(calls[i].call.limit).num
      /\ \A row \in RowsOf(calls[i]) :
           ContainsCI(row.city, calls[i].call.options.city.s)

\* The call came with the argument record its operation reads: addUser,
\* getAllProperties and addProperty read properties of their first argument.
HasRecord(c) ==
  CASE c.call.op = "addUser" -> c.call.user # Undefined
    [] c.call.op = "getAllProperties" -> c.call.options # Undefined
    [] c.call.op = "addProperty" -> c.call.property # Undefined
    [] OTHER -> TRUE

\* The call is over and has failed: it threw, or its promise is rejected.
HasFailed(c) == c.result.status \in {"thrown", "rejected"}

\* C8 as claimed: every failed call, malformed input included, is a rejected
\* promise that carries the error of its one query.
C8_AnyFailureRejects ==
  \A i \in Places :
    HasFailed(calls[i]) =>
      /\ Len(calls[i].issued) = 1
      /\ calls[i].result.status = "rejected"
      /\ calls[i].result.error = calls[i].answer.error

\* C8 as amended: a call throws, with no query issued, exactly when its
\* argument record is missing. Every other call issues exactly one query;
\* its promise is pending until the pool has answered and the callback has
\* run, then it is resolved when the query succeeded and rejected with the
\* query's own error when it failed.
C8_QueryFailuresPropagateUnchanged ==
  \A i \in Places :
    calls[i].phase # "idle" =>
      /\ calls[i].phase = "thrown" <=> ~HasRecord(calls[i])
      /\ calls[i].phase = "thrown" =>
           Len(calls[i].issued) = 0 /\ calls[i].result.status = "thrown"
      /\ calls[i].phase # "thrown" =>
           /\ Len(calls[i].issued) = 1
           /\ calls[i].phase # "settled" =>
                calls[i].result.status = "pending"
           /\ calls[i].phase = "settled" =>
                /\ calls[i].answer.ok <=>
                     calls[i].result.status = "resolved"
                /\ ~calls[i].answer.ok =>
                     /\ calls[i].result.status = "rejected"
                     /\ calls[i].result.error = calls[i].answer.error
                     /\ calls[i].result.error
                          \in {"connection", "constraint", "malformed"}

\* A search the store refused as malformed, rejected with that error, next
\* to an addUser without a user record, which threw.
C8_Witness ==
  \E i, j \in Places :
    /\ IsSettled(calls[i], "getAllProperties")
    /\ ~calls[i].answer.ok
    /\ calls[i].answer.error = "malformed"
    /\ calls[i].result.status = "rejected"
    /\ calls[i].result.error = "malformed"
    /\ Made(calls[j], "addUser")
    /\ calls[j].phase = "thrown"

\* C9: the record addProperty resolves to has active = true, also when the
\* record passed in carries active = false.
C9_AddedPropertyIsActive ==
  \A i \in Places :
    IsResolved(calls[i], "addProperty") =>
      /\ calls[i].result.value # Undefined
      /\ calls[i].result.value.active = TRUE

\* An insert of a record that carries active = false has resolved.
C9_Witness ==
  \E i \in Places :
    /\ IsResolved(calls[i], "addProperty")
    /\ "active" \in DOMAIN calls[i].call.property
    /\ calls[i].call.property.active = FALSE
    /\ calls[i].result.value # Undefined

\* The value an applied option binds (100 * x as the exact product, or one
\* of the two doubles next to it).
BindsValue(p, k, v) ==
  LET x == ToNumber(v) IN
  CASE k = 1 -> p = Str(<<"%">> \o v.s \o <<"%">>)
    [] k \in {2, 5} -> p = x
    [] k \in {3, 4} ->
         IF IsFinite(x)
         THEN p.kind = "number" /\ IsFinite(p)
              /\ p.num * x.den = 100 * x.num * p.den
         ELSE p = x

\* The options the call applies, in the order of the code.
AppliedOptions(c) ==
  SelectSeq(<<1, 2, 3, 4, 5>>, LAMBDA k : Truthy(Option(c, k)))

\* C10: the placeholders of the statement are $1..$k with k = number of
\* applied options + 1; the j-th predicate is that of the j-th applied option,
\* uses $j and finds the option's bound value at place j of the list; LIMIT
\* uses $k and finds the limit there.
C10_PlaceholdersAligned ==
  \A i \in Places :
    Made(calls[i], "getAllProperties") =>
      LET stmt == calls[i].issued[1].stmt
          params == calls[i].issued[1].params
          applied == AppliedOptions(calls[i])
          k == Len(applied) + 1
      IN /\ Len(params) = k
         /\ Len(stmt.where) = k - 1
         /\ \A j \in 1..(k - 1) :
              /\ stmt.where[j].ph = j
              /\ stmt.where[j].column = OptionColumn[applied[j]]
              /\ stmt.where[j].op = OptionOp[applied[j]]
              /\ BindsValue(params[j], applied[j], Option(calls[i], applied[j]))
         /\ stmt.limit = k
         /\ params[k] = WithDefault(calls[i].call.limit)

\* A search that applies all five options.
C10_Witness ==
  \E i \in Places :
    /\ IsResolved(calls[i], "getAllProperties")
    /\ Len(AppliedOptions(calls[i])) = 5
    /\ Len(calls[i].issued[1].params) = 6
    /\ Len(calls[i].result.value) > 0

====
